---- MODULE Spec2Model ----
(***************************************************************************)
(* Connection lifecycle of WhatwattEventStream (src/lib/eventstream.js).   *)
(*                                                                         *)
(* JavaScript runs one callback at a time, so every action below is the    *)
(* code that runs between two suspension points (await) of the class:      *)
(* the auth probe, the stream request, a chunk pull of the read loop and   *)
(* the address resolution inside a fired reconnect timer.  Every pending   *)
(* start() invocation and every fired timer callback is a task; the tasks  *)
(* are kept as a bag because the Manager holds no reference to them.       *)
(***************************************************************************)
EXTENDS Integers, Sequences, FiniteSets, Bags, TLC

\* ------------------------------------------------------------------ bounds
MaxTasks == 2

\* ------------------------------------------------------- program constants
maxReconnectAttempts == 10
reconnectDelay == 5000
HEARTBEAT_TIMEOUT == 300000
MaxMultiplier == 5

\* ------------------------------------------------------------ value spaces
NULL == "null"
\* the value of an option field that was not given
UNDEFINED == "undefined"
\* step.arg of a handler that takes no argument
NoArg == [none |-> TRUE]
Aborted == -1
ControllerIds == 1..(MaxTasks + 1)
Hosts == {"h1"}
Ports == {80}

\* the clock is observed in steps of ClockStep ms, up to MaxAge
ClockStep == HEARTBEAT_TIMEOUT
MaxAge == 2 * HEARTBEAT_TIMEOUT

VARIABLES
    abortController,      \* 0 = null, else the id of the AbortController
    intentionallyStopped,
    isConnected,
    reconnectAttempts,
    reconnectTimer,       \* 0 = null, else the delay (ms) of the armed timer
    heartbeatTimer,       \* TRUE = interval armed
    lastDataReceived,     \* -1 = null, else ms elapsed since that timestamp
    authenticatedFetch,   \* NULL, or the scheme of the cached request function
    authSchemeDetected,   \* NULL, "basic" or "digest"
    authScheme,           \* preference: "auto", "basic" or "digest"
    host, port, https, username, password,
    resolver,             \* TRUE iff device and driver references were given
    tasks,                \* bag of suspended start() calls / timer callbacks
    step,                 \* the handler that ran last, its argument, the callbacks
                          \* it invoked, and whether the handler before it was stop()
    ownerStopped,         \* the owner called stop() and has not restarted since
    buffer,               \* text the read loop holds back for the next chunk
    input,                \* text the device has still to send on the open stream
    frames,               \* the frames parseSSE has emitted on the open stream
    pulled                \* the text the read loop has decoded on the open stream

vars == <<abortController, intentionallyStopped, isConnected, reconnectAttempts,
          reconnectTimer, heartbeatTimer, lastDataReceived, authenticatedFetch,
          authSchemeDetected, authScheme, host, port, https, username, password,
          resolver, tasks, step, ownerStopped, buffer, input, frames,
          pulled>>

Url(hs, h, p) == [https |-> hs, host |-> h, port |-> p]

NoUrl == Url(FALSE, "", 0)

Task(pc, sig, url) == [pc |-> pc, sig |-> sig, url |-> url]

Min(a, b) == IF a < b THEN a ELSE b

\* the strings JavaScript treats as false in a condition and in a || b
FalsyString(a) == a \in {"", UNDEFINED}

\* ---------------------------------------------------------------- records
\* The Manager's fields as one value, so that a handler calling another
\* handler (start -> stop, _checkHeartbeat -> stop -> _scheduleReconnect) is a
\* composition of operators.
Self ==
    [abortController |-> abortController,
     intentionallyStopped |-> intentionallyStopped,
     isConnected |-> isConnected,
     reconnectAttempts |-> reconnectAttempts,
     reconnectTimer |-> reconnectTimer,
     heartbeatTimer |-> heartbeatTimer,
     lastDataReceived |-> lastDataReceived,
     authenticatedFetch |-> authenticatedFetch,
     authSchemeDetected |-> authSchemeDetected,
     authScheme |-> authScheme,
     host |-> host, port |-> port, https |-> https,
     username |-> username, password |-> password,
     resolver |-> resolver,
     tasks |-> tasks,
     buffer |-> buffer,
     input |-> input,
     frames |-> frames,
     pulled |-> pulled,
     calls |-> <<>>,
     arg |-> NoArg]

Commit(m, op, out) ==
    /\ abortController' = m.abortController
    /\ intentionallyStopped' = m.intentionallyStopped
    /\ isConnected' = m.isConnected
    /\ reconnectAttempts' = m.reconnectAttempts
    /\ reconnectTimer' = m.reconnectTimer
    /\ heartbeatTimer' = m.heartbeatTimer
    /\ lastDataReceived' = m.lastDataReceived
    /\ authenticatedFetch' = m.authenticatedFetch
    /\ authSchemeDetected' = m.authSchemeDetected
    /\ authScheme' = m.authScheme
    /\ host' = m.host
    /\ port' = m.port
    /\ https' = m.https
    /\ username' = m.username
    /\ password' = m.password
    /\ resolver' = m.resolver
    /\ tasks' = m.tasks
    /\ buffer' = m.buffer
    /\ input' = m.input
    /\ frames' = m.frames
    /\ pulled' = m.pulled
    /\ step' = [op |-> op, out |-> out, calls |-> m.calls,
                afterStop |-> step.op = "stop", arg |-> m.arg]
    /\ ownerStopped' = CASE op = "stop" -> TRUE
                         [] op = "start" -> FALSE
                         [] op = "updateSettings" /\ m.calls # <<>> -> FALSE
                         [] OTHER -> ownerStopped

Call(m, cb) == [m EXCEPT !.calls = Append(@, cb)]

\* ------------------------------------------------------- helpers of the class
heartbeatTimeout == HEARTBEAT_TIMEOUT

\* _stopHeartbeat(): clearInterval and null the handle
stopHeartbeat(m) == [m EXCEPT !.heartbeatTimer = FALSE]

\* _startHeartbeat(): restart the interval, lastDataReceived = Date.now()
startHeartbeat(m) ==
    [stopHeartbeat(m) EXCEPT !.lastDataReceived = 0, !.heartbeatTimer = TRUE]

\* _resetHeartbeat(): lastDataReceived = Date.now()
resetHeartbeat(m) == [m EXCEPT !.lastDataReceived = 0]

\* AbortController.abort(): every request or body that holds the signal of
\* controller c sees it aborted
abort(ts, c) ==
    LET Mark(r) == IF r.sig = c THEN [r EXCEPT !.sig = Aborted] ELSE r
        Image == {Mark(r) : r \in DOMAIN ts}
        Copies(r) == IF r \in DOMAIN ts THEN ts[r] ELSE 0
    IN  [q \in Image |->
            (IF q.sig # c THEN Copies(q) ELSE 0)
            + (IF q.sig = Aborted THEN Copies([q EXCEPT !.sig = c]) ELSE 0)]

\* mutant of stop(): the pending reconnect timer is not cleared
stop_keepsReconnectTimer(m) ==
    LET m2 == [stopHeartbeat(m) EXCEPT !.intentionallyStopped = TRUE]
        m3 == IF m2.abortController # 0
              THEN [m2 EXCEPT !.tasks = abort(@, m2.abortController),
                              !.abortController = 0]
              ELSE m2
        m4 == [m3 EXCEPT !.isConnected = FALSE]
    IN  Call(m4, "onDisconnect")

\* stop()
stop(m) ==
    LET m1 == [m EXCEPT !.reconnectTimer = 0]
        m2 == [stopHeartbeat(m1) EXCEPT !.intentionallyStopped = TRUE]
        m3 == IF m2.abortController # 0
              THEN [m2 EXCEPT !.tasks = abort(@, m2.abortController),
                              !.abortController = 0]
              ELSE m2
        m4 == [m3 EXCEPT !.isConnected = FALSE]
    IN  Call(m4, "onDisconnect")

\* mutant of _scheduleReconnect(): the bound is tested with > instead of >=
scheduleReconnect_offByOne(m) ==
    IF m.reconnectAttempts > maxReconnectAttempts THEN m
    ELSE IF m.reconnectTimer # 0 THEN m
    ELSE LET n == m.reconnectAttempts + 1
         IN  [m EXCEPT !.reconnectAttempts = n,
                       !.reconnectTimer = reconnectDelay * Min(n, MaxMultiplier)]

\* mutant of _scheduleReconnect(): the multiplier is not capped
scheduleReconnect_uncapped(m) ==
    IF m.reconnectAttempts >= maxReconnectAttempts THEN m
    ELSE IF m.reconnectTimer # 0 THEN m
    ELSE LET n == m.reconnectAttempts + 1
         IN  [m EXCEPT !.reconnectAttempts = n,
                       !.reconnectTimer = reconnectDelay * n]

\* mutant of _scheduleReconnect(): a pending timer does not stop it
scheduleReconnect_noPendingGuard(m) ==
    IF m.reconnectAttempts >= maxReconnectAttempts THEN m
    ELSE LET n == m.reconnectAttempts + 1
         IN  [m EXCEPT !.reconnectAttempts = n,
                       !.reconnectTimer = reconnectDelay * Min(n, MaxMultiplier)]

\* _scheduleReconnect(): the part that runs when it is called
scheduleReconnect(m) ==
    IF m.reconnectAttempts >= maxReconnectAttempts THEN m
    ELSE IF m.reconnectTimer # 0 THEN m
    ELSE LET n == m.reconnectAttempts + 1
         IN  [m EXCEPT !.reconnectAttempts = n,
                       !.reconnectTimer = reconnectDelay * Min(n, MaxMultiplier)]

\* resetReconnectCounter()
resetReconnectCounter(m) == [m EXCEPT !.reconnectAttempts = 0]

\* getStatus()
getStatus ==
    [connected |-> isConnected,
     readyState |-> IF isConnected THEN 1 ELSE 0,
     reconnectAttempts |-> reconnectAttempts,
     url |-> Url(https, host, port)]

\* createAuthenticatedFetch(username, password, scheme): Basic only for
\* scheme 'basic', Digest for everything else (null included)
createAuthenticatedFetch(scheme) == IF scheme = "basic" THEN "basic" ELSE "digest"

\* new AbortController(): an identity no pending request holds
NewController(m) ==
    CHOOSE c \in ControllerIds :
        /\ c # m.abortController
        /\ \A r \in DOMAIN m.tasks : r.sig # c
        /\ \A d \in ControllerIds :
              (d # m.abortController /\ \A r \in DOMAIN m.tasks : r.sig # d) => c <= d

\* a further start() or timer callback may be suspended
HasFreeSlot == BagCardinality(tasks) < MaxTasks

\* task t suspends / task t resumes
Put(m, t) == [m EXCEPT !.tasks = @ (+) SetToBag({t})]
Take(m, t) == [m EXCEPT !.tasks = @ (-) SetToBag({t})]

\* mutant of the outer catch block: the error is reported, no reconnect follows
startCatch_noReconnect(m, err) ==
    IF m.intentionallyStopped THEN m
    ELSE Call(m, err)

\* start(): the catch block of the outer try (lines 152-157)
startCatch(m, err) ==
    IF m.intentionallyStopped THEN m
    ELSE scheduleReconnect(Call(m, err))

\* start(): fetchFn(streamUrl, {signal: this._abortController.signal}); reading
\* .signal of a null controller throws a TypeError into the outer catch
startFetch(m, url) ==
    IF m.abortController = 0 THEN startCatch(m, "onError")
    ELSE Put(m, Task("fetch", m.abortController, url))

\* mutant of start(): the cached request function is not looked at, every
\* attempt with a password probes
start_alwaysProbes(m) ==
    LET m1 == IF m.abortController # 0 THEN stop(m) ELSE m
        m2 == [m1 EXCEPT !.intentionallyStopped = FALSE,
                         !.abortController = NewController(m1)]
        url == Url(m2.https, m2.host, m2.port)
    IN  IF ~FalsyString(m2.password)
        THEN Put(m2, Task("probe", 0, url))
        ELSE startFetch(m2, url)

\* start(): from the call up to its first await
start(m) ==
    LET m1 == IF m.abortController # 0 THEN stop(m) ELSE m
        m2 == [m1 EXCEPT !.intentionallyStopped = FALSE,
                         !.abortController = NewController(m1)]
        url == Url(m2.https, m2.host, m2.port)
    IN  IF ~FalsyString(m2.password) /\ m2.authenticatedFetch = NULL
        THEN IF m2.authScheme = "auto" \/ m2.authSchemeDetected = NULL
             THEN Put(m2, Task("probe", 0, url))
             ELSE startFetch([m2 EXCEPT !.authenticatedFetch =
                                            createAuthenticatedFetch(m2.authScheme)],
                             url)
        ELSE startFetch(m2, url)

\* mutant of the catch block: the error is reported but no reconnect is scheduled
readCatch_noReconnect(m, errName) ==
    IF ~m.intentionallyStopped /\ errName # "AbortError"
    THEN Call([m EXCEPT !.isConnected = FALSE], "onError")
    ELSE m

\* read loop: catch block (lines 136-142)
readCatch(m, errName) ==
    IF ~m.intentionallyStopped /\ errName # "AbortError"
    THEN scheduleReconnect(Call([m EXCEPT !.isConnected = FALSE], "onError"))
    ELSE m

\* mutant of the finally block: onDisconnect is invoked without looking at
\* _intentionallyStopped
readFinally_noStopCheck(m) ==
    Call([m EXCEPT !.isConnected = FALSE], "onDisconnect")

\* read loop: finally block (lines 143-148)
readFinally(m) ==
    LET m1 == [m EXCEPT !.isConnected = FALSE]
    IN  IF ~m1.intentionallyStopped THEN Call(m1, "onDisconnect") ELSE m1

\* mutant of the handshake success: the attempt counter is not reset
connected_noReset(m) ==
    Call(startHeartbeat([m EXCEPT !.isConnected = TRUE]), "onConnect")

\* start(): handshake success (lines 106-110)
connected(m) ==
    Call(startHeartbeat([m EXCEPT !.isConnected = TRUE, !.reconnectAttempts = 0]),
         "onConnect")

\* mutant of _checkHeartbeat(): the threshold is tested with >= instead of >
checkHeartbeat_atThreshold(m) ==
    IF ~m.isConnected \/ m.lastDataReceived = -1 THEN m
    ELSE IF m.lastDataReceived >= heartbeatTimeout
         THEN scheduleReconnect(stop(m))
         ELSE m

\* _checkHeartbeat()
checkHeartbeat(m) ==
    IF ~m.isConnected \/ m.lastDataReceived = -1 THEN m
    ELSE IF m.lastDataReceived > heartbeatTimeout
         THEN scheduleReconnect(stop(m))
         ELSE m

\* ------------------------------------------------------------------ parser
\* Text is a sequence of characters; LF and CR stand for "\n" and "\r".
LF == "LF"
CR == "CR"
EVENT == <<"e", "v", "e", "n", "t", ":">>
DATA == <<"d", "a", "t", "a", ":">>
MESSAGE == <<"m", "e", "s", "s", "a", "g", "e">>
LIVE == <<"l", "i", "v", "e">>

\* String.prototype.startsWith, slice(n) and trim()
startsWith(s, p) == Len(s) >= Len(p) /\ SubSeq(s, 1, Len(p)) = p
slice(s, n) == SubSeq(s, n + 1, Len(s))
WhiteSpace == {" ", "\t", LF, CR}
RECURSIVE trimStart(_)
trimStart(s) == IF s # <<>> /\ Head(s) \in WhiteSpace THEN trimStart(Tail(s)) ELSE s
RECURSIVE trimEnd(_)
trimEnd(s) ==
    IF s # <<>> /\ s[Len(s)] \in WhiteSpace THEN trimEnd(SubSeq(s, 1, Len(s) - 1)) ELSE s
trim(s) == trimEnd(trimStart(s))

\* the first index from i on at which s does not hold LF (Len(s) + 1 if none)
RECURSIVE skipLF(_, _)
skipLF(s, i) == IF i <= Len(s) /\ s[i] = LF THEN skipLF(s, i + 1) ELSE i

\* s.split(/\n\n+/): the pieces of s from index from on, the scan being at i
RECURSIVE splitBlocks(_, _, _)
splitBlocks(s, from, i) ==
    IF i > Len(s) THEN <<SubSeq(s, from, Len(s))>>
    ELSE IF i < Len(s) /\ s[i] = LF /\ s[i + 1] = LF
         THEN LET j == skipLF(s, i)
              IN  <<SubSeq(s, from, i - 1)>> \o splitBlocks(s, j, j)
         ELSE splitBlocks(s, from, i + 1)

\* s.split(/\r\n|\n/): the pieces of s from index from on, the scan being at i
RECURSIVE splitLines(_, _, _)
splitLines(s, from, i) ==
    IF i > Len(s) THEN <<SubSeq(s, from, Len(s))>>
    ELSE IF i < Len(s) /\ s[i] = CR /\ s[i + 1] = LF
         THEN <<SubSeq(s, from, i - 1)>> \o splitLines(s, i + 2, i + 2)
         ELSE IF s[i] = LF
              THEN <<SubSeq(s, from, i - 1)>> \o splitLines(s, i + 1, i + 1)
              ELSE splitLines(s, from, i + 1)

\* parseSSE: the loop over the lines of one block (lines 474-480)
RECURSIVE parseLines(_, _, _)
parseLines(lines, eventType, data) ==
    IF lines = <<>> THEN [event |-> eventType, data |-> data]
    ELSE LET line == Head(lines)
         IN  IF startsWith(line, EVENT)
             THEN parseLines(Tail(lines), trim(slice(line, 6)), data)
             ELSE IF startsWith(line, DATA)
                  THEN parseLines(Tail(lines), eventType,
                                  (IF data # <<>> THEN Append(data, LF) ELSE <<>>)
                                      \o trim(slice(line, 5)))
                  ELSE parseLines(Tail(lines), eventType, data)

\* parseSSE: the loop over the blocks (lines 471-484)
RECURSIVE parseBlocks(_)
parseBlocks(blocks) ==
    IF blocks = <<>> THEN <<>>
    ELSE LET ev == parseLines(splitLines(Head(blocks), 1, 1), MESSAGE, <<>>)
         IN  (IF ev.event # <<>> \/ ev.data # <<>> THEN <<ev>> ELSE <<>>)
                 \o parseBlocks(Tail(blocks))

\* mutant of parseSSE: the text after the last boundary is parsed as a block
\* as well as kept
parseSSE_emitsTail(buf) ==
    LET blocks == splitBlocks(buf, 1, 1)
    IN  [events |-> parseBlocks(blocks),
         remainder |-> blocks[Len(blocks)]]

\* parseSSE(buffer)
parseSSE(buf) ==
    LET blocks == splitBlocks(buf, 1, 1)
    IN  [events |-> parseBlocks(SubSeq(blocks, 1, Len(blocks) - 1)),
         remainder |-> blocks[Len(blocks)]]

\* JSON.parse(text) returns; the payloads the streams below carry
JsonParses(text) == text \in {<<"{", "}">>, <<"1">>}

\* JSON.parse(text): the value of a text that parses
JSONparse(text) == IF text = <<"1">> THEN [number |-> 1] ELSE [object |-> <<>>]

\* this.onData(data)
Deliver(m, data) == [Call(m, "onData") EXCEPT !.arg.delivered = Append(@, data)]

\* mutant of the dispatch: a payload that fails to decode ends the loop over
\* the frames of the chunk
RECURSIVE dispatch_stopsAtBadFrame(_, _)
dispatch_stopsAtBadFrame(m, events) ==
    IF events = <<>> THEN m
    ELSE LET ev == Head(events)
         IN  IF ev.event = LIVE /\ ev.data # <<>>
             THEN IF JsonParses(ev.data)
                  THEN dispatch_stopsAtBadFrame(
                           Deliver(resetHeartbeat(m), JSONparse(ev.data)), Tail(events))
                  ELSE m
             ELSE dispatch_stopsAtBadFrame(m, Tail(events))

\* mutant of the dispatch: every frame named live resets the heartbeat clock
RECURSIVE dispatch_resetsOnAnyLive(_, _)
dispatch_resetsOnAnyLive(m, events) ==
    IF events = <<>> THEN m
    ELSE LET ev == Head(events)
             m0 == IF ev.event = LIVE THEN resetHeartbeat(m) ELSE m
             m1 == IF ev.event = LIVE /\ ev.data # <<>> /\ JsonParses(ev.data)
                   THEN Deliver(m0, JSONparse(ev.data))
                   ELSE m0
         IN  dispatch_resetsOnAnyLive(m1, Tail(events))

\* read loop: the dispatch of the parsed frames (lines 124-134)
RECURSIVE dispatch(_, _)
dispatch(m, events) ==
    IF events = <<>> THEN m
    ELSE LET ev == Head(events)
             m1 == IF ev.event = LIVE /\ ev.data # <<>> /\ JsonParses(ev.data)
                   THEN Deliver(resetHeartbeat(m), JSONparse(ev.data))
                   ELSE m
         IN  dispatch(m1, Tail(events))

\* mutant of the read loop: the buffer is not cut back to the remainder, so
\* the next iteration parses the frames of this one again
readChunk_keepsBuffer(m, chunk) ==
    LET r == parseSSE(m.buffer \o chunk)
    IN  dispatch([m EXCEPT !.buffer = m.buffer \o chunk, !.frames = @ \o r.events,
                           !.pulled = @ \o chunk,
                           !.arg = [emitted |-> Len(r.events), delivered |-> <<>>]],
                 r.events)

\* read loop: one iteration with a chunk of text (lines 120-134)
readChunk(m, chunk) ==
    LET r == parseSSE(m.buffer \o chunk)
    IN  dispatch([m EXCEPT !.buffer = r.remainder, !.frames = @ \o r.events,
                           !.pulled = @ \o chunk,
                           !.arg = [emitted |-> Len(r.events), delivered |-> <<>>]],
                 r.events)

\* ------------------------------------------------------------ auth detector
\* String.prototype.toLowerCase
UpperCase == <<"A", "B", "C", "D", "E", "F", "G", "H", "I", "J", "K", "L", "M",
               "N", "O", "P", "Q", "R", "S", "T", "U", "V", "W", "X", "Y", "Z">>
LowerCase == <<"a", "b", "c", "d", "e", "f", "g", "h", "i", "j", "k", "l", "m",
               "n", "o", "p", "q", "r", "s", "t", "u", "v", "w", "x", "y", "z">>
toLowerCaseChar(c) ==
    IF \E k \in 1..Len(UpperCase) : UpperCase[k] = c
    THEN LowerCase[CHOOSE k \in 1..Len(UpperCase) : UpperCase[k] = c]
    ELSE c
toLowerCase(s) == [i \in 1..Len(s) |-> toLowerCaseChar(s[i])]

\* s.split(/\s+/)[0]
RECURSIVE firstToken(_)
firstToken(s) ==
    IF s = <<>> \/ Head(s) \in WhiteSpace THEN <<>>
    ELSE <<Head(s)>> \o firstToken(Tail(s))

BASIC == <<"b", "a", "s", "i", "c">>
DIGEST == <<"d", "i", "g", "e", "s", "t">>

\* what detectAuthScheme settles with when its fetch rejects
THROWN == "throw"

\* mutant of detectAuthScheme: the scheme token is compared as it is written
detectAuthScheme_caseSensitive(resp) ==
    IF "status" \notin DOMAIN resp THEN THROWN
    ELSE IF resp.status = 200 THEN NULL
    ELSE IF resp.status = 401 /\ "wwwAuth" \in DOMAIN resp
              /\ firstToken(trim(resp.wwwAuth)) = BASIC
         THEN "basic"
         ELSE "digest"

\* detectAuthScheme: the result for the answer resp of its one request, a
\* response with a status and possibly a www-authenticate header, or a
\* rejection (network failure, or the abort of its own timer)
detectAuthScheme(resp) ==
    IF "status" \notin DOMAIN resp THEN THROWN
    ELSE IF resp.status = 200 THEN NULL
    ELSE IF resp.status = 401 /\ "wwwAuth" \in DOMAIN resp
              /\ toLowerCase(firstToken(trim(resp.wwwAuth))) = BASIC
         THEN "basic"
         ELSE IF resp.status = 401 /\ "wwwAuth" \in DOMAIN resp
                   /\ toLowerCase(firstToken(trim(resp.wwwAuth))) = DIGEST
              THEN "digest"
              ELSE "digest"

\* ---------------------------------------------------------- stream adapter
\* mutant of toAsyncIterable: a missing body is taken for an empty stream
toAsyncIterable_acceptsEmpty(body) ==
    CASE body \in {"none", "web"} -> "webStream"
      [] body = "asyncIterable" -> "body"
      [] body = "node" -> "nodeStream"
      [] OTHER -> THROWN

\* toAsyncIterable(body): the iterable it returns, or that it throws. A body
\* is missing ("none"), has getReader ("web"), has Symbol.asyncIterator
\* ("asyncIterable"), is a Node Readable or has pipe and on ("node"), or is
\* none of these ("other").
toAsyncIterable(body) ==
    CASE body = "none" -> THROWN
      [] body = "web" -> "webStream"
      [] body = "asyncIterable" -> "body"
      [] body = "node" -> "nodeStream"
      [] OTHER -> THROWN

\* ------------------------------------------------------------------ inputs
\* constructor options and updateSettings() arguments of the lifecycle runs
Config(h, p, hs, u, pw) ==
    [host |-> h, port |-> p, https |-> hs, username |-> u, password |-> pw]

\* a device that asks for a password and one that does not
LifecycleOptions ==
    {Config("h1", 80, FALSE, "", "pw"), Config("h1", 80, FALSE, "", "")}

\* what detectAuthScheme can settle with; the lifecycle runs draw from the
\* outcomes that leave distinct caches (null/digest, basic/basic) and failure
ProbeOutcomes == {"none", "basic", "digest", "fail"}
LifecycleProbes == {"none", "basic", "fail"}
FetchOutcomes == {"ok", "okBadBody", "401", "httpError", "netError"}
PullOutcomes == {"data", "other", "end", "error"}
ResolveOutcomes ==
    {[kind |-> k, host |-> "", port |-> 0] : k \in {"unchanged", "failed", "threw"}}
    \cup {[kind |-> "updated", host |-> h, port |-> p] : h \in Hosts, p \in Ports}

\* ------------------------------------------------------------ construction
\* new WhatwattEventStream(o) for some o of the option set O with an
\* authScheme option of A, facing a device that will send one of the texts I
\* once a stream is open
ConstructedWith(O, I, A) ==
    /\ abortController = 0
    /\ intentionallyStopped = FALSE
    /\ isConnected = FALSE
    /\ reconnectAttempts = 0
    /\ reconnectTimer = 0
    /\ heartbeatTimer = FALSE
    /\ lastDataReceived = -1
    /\ authenticatedFetch = NULL
    /\ authSchemeDetected = NULL
    /\ authScheme \in A
    /\ \E o \in O :
          /\ host = o.host
          /\ port = o.port
          /\ https = o.https
          /\ username = o.username
          /\ password = o.password
    /\ resolver \in BOOLEAN
    /\ tasks = EmptyBag
    /\ step = [op |-> "constructor", out |-> "", calls |-> <<>>,
               afterStop |-> FALSE, arg |-> NoArg]
    /\ ownerStopped = FALSE
    /\ buffer = <<>>
    /\ frames = <<>>
    /\ pulled = <<>>
    /\ input \in I

\* new WhatwattEventStream(o) as the device driver constructs it: authScheme
\* 'auto'
ConstructedFor(O, I) == ConstructedWith(O, I, {"auto"})

\* new WhatwattEventStream(o) where the content of the stream is left open
Constructed(O) == ConstructedFor(O, {<<>>})

Init == Constructed(LifecycleOptions)

\* ------------------------------------------------------- external operations
\* mutant of the owner's start(): the address is looked up first, as in the
\* reconnect timer callback
Start_consultsResolver ==
    /\ HasFreeSlot
    /\ Commit(IF resolver THEN Put(Self, Task("resolve", 0, NoUrl)) ELSE start(Self),
              "start", "")

\* start() called by the owner of the Manager
Start ==
    /\ HasFreeSlot
    /\ Commit(start(Self), "start", "")

\* stop() called by the owner of the Manager
Stop == Commit(stop(Self), "stop", "")

\* resetReconnectCounter() called by the owner of the Manager
ResetReconnectCounter == Commit(resetReconnectCounter(Self), "resetReconnectCounter", "")

\* newOptions.f, where a field that was not given reads as undefined; this.port
\* and this.https are never undefined (lines 18-19 and 273-274), so an option
\* that lacks them differs from them
Has(o, f) == f \in DOMAIN o
StringOf(o, f) == IF Has(o, f) THEN o[f] ELSE UNDEFINED
PortOf(o) == IF Has(o, "port") THEN o.port ELSE 0
HttpsOf(o) == IF Has(o, "https") THEN o.https ELSE FALSE

needsRestart(m, o) ==
    \/ StringOf(o, "host") # m.host
    \/ ~Has(o, "port") \/ o.port # m.port
    \/ ~Has(o, "https") \/ o.https # m.https
    \/ StringOf(o, "username") # m.username
    \/ StringOf(o, "password") # m.password

\* a || b of JavaScript for the three field types
OrElse(a, b) == IF FalsyString(a) THEN b ELSE a
OrElseNum(a, b) == IF a = 0 THEN b ELSE a
OrElseBool(a, b) == a \/ b

updateSettings(m, o) ==
    IF needsRestart(m, o)
    THEN LET m1 == [m EXCEPT !.host = OrElse(StringOf(o, "host"), m.host),
                             !.port = OrElseNum(PortOf(o), m.port),
                             !.https = OrElseBool(HttpsOf(o), m.https),
                             !.username = StringOf(o, "username"),
                             !.password = StringOf(o, "password"),
                             !.authenticatedFetch = NULL,
                             !.authSchemeDetected = NULL,
                             !.arg = o]
         IN  start(stop(resetReconnectCounter(m1)))
    ELSE [m EXCEPT !.arg = o]

UpdateSettings(o) ==
    /\ needsRestart(Self, o) => HasFreeSlot
    /\ Commit(updateSettings(Self, o), "updateSettings", "")

\* ------------------------------------------------------------------ timers
\* the reconnect timer fires: the callback runs up to refreshDeviceIP, or, when
\* no device/driver reference was given, straight into start()
ReconnectTimerFire ==
    /\ reconnectTimer # 0
    /\ HasFreeSlot
    /\ LET m1 == [Self EXCEPT !.reconnectTimer = 0]
       IN  IF m1.resolver
           THEN Commit(Put(m1, Task("resolve", 0, NoUrl)), "reconnectTimer", "")
           ELSE Commit(start(m1), "reconnectTimer", "")

\* mutant of the timer callback: the address of every successful answer is
\* adopted, changed or not
ResolveDone_adoptsOnSuccess(t, r) ==
    /\ t.pc = "resolve"
    /\ LET m0 == [Take(Self, t) EXCEPT !.arg = r]
           m1 == IF r.kind \in {"updated", "unchanged"}
                 THEN [m0 EXCEPT !.host = r.host, !.port = r.port]
                 ELSE m0
       IN  Commit(start(m1), "resolveDone", r.kind)

\* refreshDeviceIP settles: adopt the address when updated, then start()
ResolveDone(t, r) ==
    /\ t.pc = "resolve"
    /\ LET m0 == [Take(Self, t) EXCEPT !.arg = r]
           m1 == IF r.kind = "updated"
                 THEN [m0 EXCEPT !.host = r.host, !.port = r.port]
                 ELSE m0
       IN  Commit(start(m1), "resolveDone", r.kind)

\* the heartbeat interval fires
HeartbeatPoll ==
    /\ heartbeatTimer
    /\ Commit(checkHeartbeat(Self), "heartbeatPoll", "")

\* ClockStep ms of wall-clock time pass
Tick ==
    /\ heartbeatTimer
    /\ lastDataReceived # -1
    /\ lastDataReceived < MaxAge
    /\ Commit([Self EXCEPT !.lastDataReceived = @ + ClockStep], "tick", "")

\* --------------------------------------------------- resumptions of start()
\* detectAuthScheme settles
ProbeDone(t, r) ==
    /\ t.pc = "probe"
    /\ IF r = "fail"
       THEN Commit(startCatch(Take(Self, t), "onError"), "probeDone", r)
       ELSE LET scheme == IF r = "none" THEN NULL ELSE r
                m1 == [Take(Self, t) EXCEPT
                          !.authSchemeDetected = scheme,
                          !.authenticatedFetch = createAuthenticatedFetch(scheme)]
            IN  Commit(startFetch(m1, t.url), "probeDone", r)

\* detectAuthScheme settles on the answer resp to its request
ProbeAnswer(t, resp) ==
    /\ t.pc = "probe"
    /\ LET scheme == detectAuthScheme(resp)
           m0 == [Take(Self, t) EXCEPT !.arg = resp]
       IN  IF scheme = THROWN
           THEN Commit(startCatch(m0, "onError"), "probeDone", "fail")
           ELSE Commit(startFetch([m0 EXCEPT
                                      !.authSchemeDetected = scheme,
                                      !.authenticatedFetch =
                                          createAuthenticatedFetch(scheme)],
                                  t.url),
                       "probeDone", IF scheme = NULL THEN "none" ELSE scheme)

\* the stream request settles
FetchDone(t, r) ==
    /\ t.pc = "fetch"
    /\ LET m0 == Take(Self, t)
       IN  IF t.sig = Aborted
           THEN /\ r = "abort"
                /\ Commit(startCatch(m0, "onErrorAbort"), "fetchDone", r)
           ELSE /\ r \in FetchOutcomes
                /\ CASE r = "401" ->
                          LET m1 == Call(m0, "onError401")
                          IN  Commit(IF ~m1.intentionallyStopped
                                     THEN scheduleReconnect(m1) ELSE m1, "fetchDone", r)
                     [] r \in {"httpError", "netError"} ->
                          Commit(startCatch(m0, "onError"), "fetchDone", r)
                     [] r = "ok" ->
                          Commit(Put([connected(m0) EXCEPT !.buffer = <<>>,
                                                           !.frames = <<>>,
                                                           !.pulled = <<>>],
                                     [t EXCEPT !.pc = "read"]), "fetchDone", r)
                     [] r = "okBadBody" ->
                          Commit(readFinally(readCatch(connected(m0), "Error")),
                                 "fetchDone", r)

\* a chunk pull of the read loop settles
ChunkPull(t, r) ==
    /\ t.pc = "read"
    /\ LET m0 == Take(Self, t)
       IN  IF t.sig = Aborted
           THEN /\ r = "abort"
                /\ Commit(readFinally(readCatch(m0, "AbortError")), "chunkPull", r)
           ELSE /\ r \in PullOutcomes
                /\ CASE r \in {"data", "other"} ->
                          IF intentionallyStopped
                          THEN Commit(readFinally(m0), "chunkPull", r)
                          ELSE IF r = "data"
                               THEN Commit(Call(resetHeartbeat(Self), "onData"),
                                           "chunkPull", r)
                               ELSE Commit(Self, "chunkPull", r)
                     [] r = "end" ->
                          Commit(readFinally(m0), "chunkPull", r)
                     [] r = "error" ->
                          Commit(readFinally(readCatch(m0, "Error")), "chunkPull", r)

\* the stream request is answered 2xx with a body of the given shape
FetchBody(t, body) ==
    /\ t.pc = "fetch"
    /\ t.sig # Aborted
    /\ LET m0 == connected([Take(Self, t) EXCEPT !.arg = [body |-> body]])
       IN  IF toAsyncIterable(body) = THROWN
           THEN Commit(readFinally(readCatch(m0, "Error")), "fetchDone", "okBadBody")
           ELSE Commit(Put([m0 EXCEPT !.buffer = <<>>, !.frames = <<>>,
                                      !.pulled = <<>>],
                           [t EXCEPT !.pc = "read"]), "fetchDone", "ok")

\* a chunk pull of the read loop settles with the next k characters the
\* device sends
ChunkText(t, k) ==
    /\ t.pc = "read"
    /\ t.sig # Aborted
    /\ k \in 1..Len(input)
    /\ LET chunk == SubSeq(input, 1, k)
           m0 == [Self EXCEPT !.input = slice(input, k)]
       IN  IF intentionallyStopped
           THEN Commit(readFinally(Take(m0, t)), "chunkPull", "text")
           ELSE Commit(readChunk(m0, chunk), "chunkPull", "text")

Next ==
    \/ Start
    \/ Stop
    \/ ResetReconnectCounter
    \/ \E o \in LifecycleOptions : UpdateSettings(o)
    \/ ReconnectTimerFire
    \/ \E t \in DOMAIN tasks, r \in ResolveOutcomes : ResolveDone(t, r)
    \/ HeartbeatPoll
    \/ Tick
    \/ \E t \in DOMAIN tasks, r \in LifecycleProbes : ProbeDone(t, r)
    \/ \E t \in DOMAIN tasks, r \in FetchOutcomes \cup {"abort"} : FetchDone(t, r)
    \/ \E t \in DOMAIN tasks, r \in PullOutcomes \cup {"abort"} : ChunkPull(t, r)

Spec == Init /\ [][Next]_vars

\* the device starts the stream once, right after constructing it
InitialStart == step.op = "constructor" /\ Start

\* ---------------------------------------------------- progress specification
\* The device starts the stream once and then leaves the Manager to itself.
\* Fairness is what the code itself makes happen: its timers fire (setTimeout
\* and setInterval callbacks run), refreshDeviceIP and the auth probe settle
\* (the probe by an answer or by the timer detectAuthScheme arms for it), and
\* a request or read whose signal was aborted rejects.  Nothing in the code
\* makes the device answer a stream request or deliver a chunk, so these two
\* carry no fairness.
TimersFire == ReconnectTimerFire \/ HeartbeatPoll
ResolveSettles == \E t \in DOMAIN tasks, r \in ResolveOutcomes : ResolveDone(t, r)
ProbeSettles == \E t \in DOMAIN tasks, r \in LifecycleProbes : ProbeDone(t, r)
AbortSettles ==
    \E t \in DOMAIN tasks : FetchDone(t, "abort") \/ ChunkPull(t, "abort")

ProgressNext ==
    \/ InitialStart
    \/ ReconnectTimerFire
    \/ \E t \in DOMAIN tasks, r \in ResolveOutcomes : ResolveDone(t, r)
    \/ HeartbeatPoll
    \/ Tick
    \/ \E t \in DOMAIN tasks, r \in LifecycleProbes : ProbeDone(t, r)
    \/ \E t \in DOMAIN tasks, r \in FetchOutcomes \cup {"abort"} : FetchDone(t, r)
    \/ \E t \in DOMAIN tasks, r \in PullOutcomes \cup {"abort"} : ChunkPull(t, r)

ProgressSpec ==
    /\ Init
    /\ [][ProgressNext]_vars
    /\ WF_vars(TimersFire)
    /\ WF_vars(ResolveSettles)
    /\ WF_vars(ProbeSettles)
    /\ WF_vars(AbortSettles)

\* ---------------------------------------------------- recovery specification
\* The device starts the stream once and never stops it, and the device is
\* well: the probe is answered, every stream request is accepted, and a
\* stream, once open, delivers data, ends, or breaks. Timer callbacks run,
\* and the look-up, the probe, the stream request and an aborted read settle.
RecoveryProbes == {"none", "basic"}
RecoveryPulls == {"data", "end", "error"}
ProbeAccepts == \E t \in DOMAIN tasks, r \in RecoveryProbes : ProbeDone(t, r)
FetchAccepts == \E t \in DOMAIN tasks : FetchDone(t, "ok")

RecoveryNext ==
    \/ InitialStart
    \/ ReconnectTimerFire
    \/ ResolveSettles
    \/ HeartbeatPoll
    \/ Tick
    \/ ProbeAccepts
    \/ FetchAccepts
    \/ AbortSettles
    \/ \E t \in DOMAIN tasks, r \in RecoveryPulls : ChunkPull(t, r)

RecoverySpec ==
    /\ Init
    /\ [][RecoveryNext]_vars
    /\ WF_vars(ReconnectTimerFire)
    /\ WF_vars(HeartbeatPoll)
    /\ WF_vars(ResolveSettles)
    /\ WF_vars(ProbeAccepts)
    /\ WF_vars(FetchAccepts)
    /\ WF_vars(AbortSettles)

\* ------------------------------------------------------ parser specification
\* The device answers the stream request and sends one of Texts, which the
\* transport cuts into chunks at arbitrary places.  A text is up to MaxFrames
\* terminated blocks followed by an unterminated tail.
MaxFrames == 2

EventLive == EVENT \o LIVE
DataGood == DATA \o <<" ", "{", "}">>
DataBad == DATA \o <<"{">>
Comment == <<":", "c">>
Blocks ==
    {EventLive \o <<LF>> \o DataGood,
     EventLive \o <<CR, LF>> \o DataGood,
     Comment}
Terminators == {<<LF, LF>>, <<LF, LF, LF, LF>>, <<CR, LF, CR, LF>>}
Tails == {<<>>, SubSeq(EventLive, 1, 8)}

RECURSIVE Streams(_)
Streams(n) ==
    IF n = 0 THEN {<<>>}
    ELSE {b \o t \o s : b \in Blocks, t \in Terminators, s \in Streams(n - 1)}

Texts == {s \o tail : s \in UNION {Streams(n) : n \in 1..MaxFrames}, tail \in Tails}

OpenDevice == Config("h1", 80, FALSE, "", "")

ParserInit == ConstructedFor({OpenDevice}, Texts) /\ ~resolver

ParserNext ==
    \/ InitialStart
    \/ \E t \in DOMAIN tasks : FetchDone(t, "ok")
    \/ \E t \in DOMAIN tasks, k \in 1..Len(input) : ChunkText(t, k)

ParserSpec == ParserInit /\ [][ParserNext]_vars

\* ------------------------------------------------------ buffer specification
\* The parser is handed one buffer: the device answers the stream request and
\* the first pull of the read loop brings all the text there is, which is any
\* text a read loop can have accumulated: a stream text cut anywhere.
Buffers == UNION {{SubSeq(s, 1, n) : n \in 1..Len(s)} : s \in Texts}

BufferInit == ConstructedFor({OpenDevice}, Buffers) /\ ~resolver

BufferNext ==
    \/ InitialStart
    \/ \E t \in DOMAIN tasks : FetchDone(t, "ok")
    \/ \E t \in DOMAIN tasks : ChunkText(t, Len(input))

BufferSpec == BufferInit /\ [][BufferNext]_vars

\* ------------------------------------------------------ stream specification
\* The device answers the stream request and sends up to MaxFrames frames, each
\* terminated by one blank line: a live frame with a JSON payload, one with a
\* payload that does not decode, one with an empty payload, and a frame with
\* another event name.  The transport cuts the text into chunks at arbitrary
\* places, the clock advances and the heartbeat interval fires.
Frame(eventLine, dataLine) == eventLine \o <<LF>> \o dataLine \o <<LF, LF>>
StreamFrames ==
    {Frame(EventLive, DataGood), Frame(EventLive, DataBad), Frame(EventLive, DATA),
     Frame(EVENT \o <<"x">>, DataGood)}

RECURSIVE FrameTexts(_)
FrameTexts(n) ==
    IF n = 0 THEN {<<>>}
    ELSE {f \o s : f \in StreamFrames, s \in FrameTexts(n - 1)}

StreamTexts == UNION {FrameTexts(n) : n \in 1..MaxFrames}

StreamInit == ConstructedFor({OpenDevice}, StreamTexts) /\ ~resolver

StreamNext ==
    \/ InitialStart
    \/ \E t \in DOMAIN tasks : FetchDone(t, "ok")
    \/ \E t \in DOMAIN tasks, k \in 1..Len(input) : ChunkText(t, k)
    \/ Tick
    \/ HeartbeatPoll

StreamSpec == StreamInit /\ [][StreamNext]_vars

\* ------------------------------------------------------- order specification
\* The device sends up to MaxFrames live frames, each with one of two JSON
\* payloads or with a payload that does not decode, and the transport cuts
\* the text into chunks at arbitrary places.
DataOne == DATA \o <<"1">>
OrderFrames ==
    {Frame(EventLive, DataGood), Frame(EventLive, DataOne), Frame(EventLive, DataBad)}

RECURSIVE OrderTexts(_)
OrderTexts(n) ==
    IF n = 0 THEN {<<>>}
    ELSE {f \o s : f \in OrderFrames, s \in OrderTexts(n - 1)}

OrderInit ==
    ConstructedFor({OpenDevice}, UNION {OrderTexts(n) : n \in 1..MaxFrames}) /\ ~resolver

OrderNext ==
    \/ InitialStart
    \/ \E t \in DOMAIN tasks : FetchDone(t, "ok")
    \/ \E t \in DOMAIN tasks, k \in 1..Len(input) : ChunkText(t, k)

OrderSpec == OrderInit /\ [][OrderNext]_vars

\* -------------------------------------------------------- auth specification
\* A device behind a password, reachable at two addresses, or without one.
\* The device starts the stream once, may change the settings, and the Manager
\* reconnects on its own; the probe can settle with every scheme.
AuthOptions ==
    {Config("h1", 80, FALSE, "", "pw"), Config("h2", 80, FALSE, "", "pw"),
     Config("h1", 80, FALSE, "", "")}
AuthFetches == {"ok", "401", "netError"}
AuthPulls == {"data", "error"}

AuthInit == Constructed(AuthOptions) /\ ~resolver

AuthNext ==
    \/ InitialStart
    \/ \E o \in AuthOptions : UpdateSettings(o)
    \/ ReconnectTimerFire
    \/ \E t \in DOMAIN tasks, r \in ProbeOutcomes : ProbeDone(t, r)
    \/ \E t \in DOMAIN tasks, r \in AuthFetches \cup {"abort"} : FetchDone(t, r)
    \/ \E t \in DOMAIN tasks, r \in AuthPulls \cup {"abort"} : ChunkPull(t, r)

AuthSpec == AuthInit /\ [][AuthNext]_vars

\* ---------------------------------------------------- detector specification
\* A device behind a password whose answer to the probe is any of: a status
\* with or without a www-authenticate header, or no answer at all. The stream
\* request that follows is refused or rejected with 401, and the Manager
\* reconnects on its own.
ProbeStatuses == {200, 201, 204, 299, 401, 403, 500}
ProbeHeaders ==
    {<<"B", "a", "s", "i", "c", " ", "r">>,
     <<"B", "A", "S", "I", "C">>,
     <<" ", "b", "a", "s", "i", "c", "\t", "r">>,
     <<"b", "a", "s", "i", "c", "x">>,
     <<"D", "i", "g", "e", "s", "t", " ", "q">>,
     <<"N", "T", "L", "M">>,
     <<>>}
ProbeResponses ==
    {[status |-> st] : st \in ProbeStatuses}
    \cup {[status |-> st, wwwAuth |-> h] : st \in ProbeStatuses, h \in ProbeHeaders}
    \cup {[error |-> "rejected"]}
DetectFetches == {"401", "netError"}

DetectInit == Constructed({Config("h1", 80, FALSE, "", "pw")}) /\ ~resolver

DetectNext ==
    \/ InitialStart
    \/ ReconnectTimerFire
    \/ \E t \in DOMAIN tasks, resp \in ProbeResponses : ProbeAnswer(t, resp)
    \/ \E t \in DOMAIN tasks, r \in DetectFetches : FetchDone(t, r)

DetectSpec == DetectInit /\ [][DetectNext]_vars

\* -------------------------------------------------------- body specification
\* A device without a password that answers every stream request 2xx, with a
\* body of any shape; the owner starts and stops the Manager at will, streams
\* end or fail, and the Manager reconnects on its own.
BodyShapes == {"none", "web", "asyncIterable", "node", "other"}
BodyPulls == {"data", "end", "error"}

BodyInit == Constructed({OpenDevice}) /\ ~resolver

BodyNext ==
    \/ Start
    \/ Stop
    \/ ReconnectTimerFire
    \/ \E t \in DOMAIN tasks, body \in BodyShapes : FetchBody(t, body)
    \/ \E t \in DOMAIN tasks : FetchDone(t, "abort")
    \/ \E t \in DOMAIN tasks, r \in BodyPulls \cup {"abort"} : ChunkPull(t, r)

BodySpec == BodyInit /\ [][BodyNext]_vars

\* -------------------------------------------------- preference specification
\* A device behind a password and a Manager constructed with any authScheme
\* option; the owner starts it once and may change the password, and the
\* Manager reconnects on its own.
AuthSchemes == {"auto", "basic", "digest"}
PreferenceOptions == {Config("h1", 80, FALSE, "", "pw"), Config("h1", 80, FALSE, "", "pw2")}
PreferenceFetches == {"ok", "netError"}
PreferencePulls == {"error"}

PreferenceInit == ConstructedWith(PreferenceOptions, {<<>>}, AuthSchemes) /\ ~resolver

PreferenceNext ==
    \/ InitialStart
    \/ \E o \in PreferenceOptions : UpdateSettings(o)
    \/ ReconnectTimerFire
    \/ \E t \in DOMAIN tasks, r \in ProbeOutcomes : ProbeDone(t, r)
    \/ \E t \in DOMAIN tasks, r \in PreferenceFetches \cup {"abort"} : FetchDone(t, r)
    \/ \E t \in DOMAIN tasks, r \in PreferencePulls \cup {"abort"} : ChunkPull(t, r)

PreferenceSpec == PreferenceInit /\ [][PreferenceNext]_vars

\* ----------------------------------------------- address-resolution specification
\* A device whose address can change. The Manager is given the device and
\* driver references or not; the owner starts it, may start it again and may
\* change the settings; connects fail or succeed, streams end, and the
\* Manager reconnects on its own. refreshDeviceIP answers with the discovered
\* address (changed), the stored address (unchanged, or a failure inside its
\* try block), or throws.
ResolveAddresses == {[host |-> "h1", port |-> 80], [host |-> "h2", port |-> 8080]}
ResolveAnswers ==
    {[kind |-> k, host |-> a.host, port |-> a.port] :
        k \in {"updated", "unchanged", "failed"}, a \in ResolveAddresses}
    \cup {[kind |-> "threw", host |-> "", port |-> 0]}
ResolveOptions == {Config("h1", 80, FALSE, "", ""), Config("h1", 80, FALSE, "", "pw")}
ResolveProbes == {"none", "fail"}
ResolveFetches == {"ok", "netError"}
ResolvePulls == {"end", "error"}

ResolveInit == Constructed(ResolveOptions)

ResolveNext ==
    \/ Start
    \/ \E o \in ResolveOptions : UpdateSettings(o)
    \/ ReconnectTimerFire
    \/ \E t \in DOMAIN tasks, r \in ResolveAnswers : ResolveDone(t, r)
    \/ \E t \in DOMAIN tasks, r \in ResolveProbes : ProbeDone(t, r)
    \/ \E t \in DOMAIN tasks, r \in ResolveFetches \cup {"abort"} : FetchDone(t, r)
    \/ \E t \in DOMAIN tasks, r \in ResolvePulls \cup {"abort"} : ChunkPull(t, r)

ResolveSpec == ResolveInit /\ [][ResolveNext]_vars

\* ---------------------------------------------------- settings specification
\* The owner reconfigures the Manager: every full configuration over two
\* hosts, two ports, both transports and present/absent credentials, and a
\* partial one that carries a logger only.  Timers are left out: a pending
\* reconnect timer never fires here, and the owner calls start() once.
SettingsHosts == {"h1", "h2"}
SettingsPorts == {80, 8080}
FullConfigs ==
    {Config(h, p, hs, u, pw) : h \in SettingsHosts, p \in SettingsPorts,
                               hs \in BOOLEAN, u \in {"", "admin"}, pw \in {"", "pw"}}
LoggerOnly == [logger |-> "log"]
SettingsOptions == FullConfigs \cup {LoggerOnly}
SettingsFetches == {"ok", "netError"}
SettingsPulls == {"data", "end"}

SettingsInit == Constructed(FullConfigs) /\ ~resolver

SettingsNext ==
    \/ InitialStart
    \/ \E o \in SettingsOptions : UpdateSettings(o)
    \/ \E t \in DOMAIN tasks, r \in LifecycleProbes : ProbeDone(t, r)
    \/ \E t \in DOMAIN tasks, r \in SettingsFetches \cup {"abort"} : FetchDone(t, r)
    \/ \E t \in DOMAIN tasks, r \in SettingsPulls \cup {"abort"} : ChunkPull(t, r)

SettingsSpec == SettingsInit /\ [][SettingsNext]_vars

\* ================================================================== claims
Invoked(st, cb) == \E i \in 1..Len(st.calls) : st.calls[i] = cb

\* onError was invoked, whatever the error
AnyError(st) ==
    Invoked(st, "onError") \/ Invoked(st, "onError401") \/ Invoked(st, "onErrorAbort")

\* a connect attempt or a connection failed in the handler st records
IsFailure(st) ==
    /\ st.op \in {"probeDone", "fetchDone", "chunkPull"}
    /\ AnyError(st)
    /\ ~Invoked(st, "onConnect")

\* the handler st records is the resumption op of a task with outcome out
Settled(st, op, out) == st.op = op /\ st.out = out

\* C1: when the stream request answers HTTP 401 the Manager invokes onError
\* with the authentication-failure error and schedules no reconnect: the
\* reconnect timer and the attempt counter are left as they were.
C1_NoReconnectOn401 ==
    [][Settled(step', "fetchDone", "401") =>
          /\ step'.calls = <<"onError401">>
          /\ reconnectTimer' = reconnectTimer
          /\ reconnectAttempts' = reconnectAttempts]_vars

\* C2: the attempt counter never exceeds maxReconnectAttempts, and a failure
\* that happens while the counter stands at the maximum arms no further
\* reconnect timer and leaves getStatus().reconnectAttempts at the maximum.
C2_AttemptsBounded ==
    /\ [](reconnectAttempts <= maxReconnectAttempts)
    /\ [][(reconnectAttempts = maxReconnectAttempts /\ IsFailure(step')) =>
              /\ reconnectTimer' = reconnectTimer
              /\ getStatus'.reconnectAttempts = maxReconnectAttempts]_vars

\* C2 witness: a failure after the last permitted reconnect attempt, with no
\* timer pending
C2_Witness ==
    /\ reconnectAttempts = maxReconnectAttempts
    /\ reconnectTimer = 0
    /\ IsFailure(step)

\* requests and read loops whose abort signal has not been raised
Live(ts) == {t \in DOMAIN ts : t.pc \in {"fetch", "read"} /\ t.sig # Aborted}

LiveCount(ts) == BagCardinality([t \in Live(ts) |-> ts[t]])

Reading(ts) == {t \in DOMAIN ts : t.pc = "read" /\ t.sig # Aborted}

\* C3: stop() issued while a read loop is suspended on a chunk pull aborts the
\* request and invokes onDisconnect once; the read loop that then unwinds with
\* the abort invokes neither onError nor, while the Manager is still stopped,
\* onDisconnect, and arms no reconnect timer.
C3_StopWhileConnected ==
    [][/\ (step'.op = "stop" /\ isConnected /\ Reading(tasks) # {}) =>
              /\ step'.calls = <<"onDisconnect">>
              /\ Live(tasks') = {}
              /\ abortController' = 0
              /\ ~isConnected'
              /\ reconnectTimer' = 0
       /\ Settled(step', "chunkPull", "abort") =>
              /\ ~AnyError(step')
              /\ reconnectTimer' = reconnectTimer
              /\ reconnectAttempts' = reconnectAttempts
              /\ intentionallyStopped => step'.calls = <<>>]_vars

\* C3 witness: the read loop aborted by the owner's stop() has unwound
C3_Witness ==
    /\ Settled(step, "chunkPull", "abort")
    /\ ownerStopped
    /\ intentionallyStopped
    /\ step.calls = <<>>
    /\ reconnectTimer = 0

\* C4: of two stop() calls in succession the second invokes no callback.
C4_SecondStopSilent ==
    (step.op = "stop" /\ step.afterStop) => step.calls = <<>>

\* C5: at most one stream request or read loop is live at any time.
C5_OneLiveConnection == LiveCount(tasks) <= 1

\* C6: once the owner has called stop(), the Manager stays stopped (no
\* controller, no timer, no live request) until the owner restarts it.
C6_StoppedIsTerminal ==
    ownerStopped =>
        /\ intentionallyStopped
        /\ abortController = 0
        /\ reconnectTimer = 0
        /\ Live(tasks) = {}

\* C7: a natural end of an established stream, stop() not having been called,
\* invokes onError and onDisconnect and schedules a reconnect.
C7_StreamEndReconnects ==
    [][(Settled(step', "chunkPull", "end") /\ ~intentionallyStopped) =>
          /\ Invoked(step', "onError")
          /\ Invoked(step', "onDisconnect")
          /\ reconnectAttempts < maxReconnectAttempts => reconnectTimer' # 0]_vars

\* C8: a chunk pull failing with a non-abort error, stop() not having been
\* called, sets connected to false, invokes onError once and onDisconnect
\* once and nothing else, and leaves one reconnect timer armed when the
\* counter is below the maximum (a new one unless one was pending).
C8_ReadErrorHandledOnce ==
    [][(Settled(step', "chunkPull", "error") /\ ~intentionallyStopped) =>
          /\ ~isConnected'
          /\ step'.calls = <<"onError", "onDisconnect">>
          /\ reconnectAttempts < maxReconnectAttempts =>
                /\ reconnectTimer' # 0
                /\ reconnectTimer = 0 => reconnectAttempts' = reconnectAttempts + 1
                /\ reconnectTimer # 0 => /\ reconnectTimer' = reconnectTimer
                                         /\ reconnectAttempts' = reconnectAttempts]_vars

\* C8 witness: a read error has been handled and a timer is armed
C8_Witness ==
    /\ Settled(step, "chunkPull", "error")
    /\ step.calls = <<"onError", "onDisconnect">>
    /\ ~isConnected
    /\ reconnectTimer # 0

\* C9: a heartbeat poll while connected tears the connection down and arms a
\* reconnect timer when more than heartbeatTimeout has elapsed since the last
\* data, and changes nothing when the elapsed time is within the threshold.
C9_HeartbeatTimeout ==
    [][(step'.op = "heartbeatPoll" /\ isConnected) =>
          IF lastDataReceived > heartbeatTimeout
          THEN /\ ~isConnected'
               /\ abortController' = 0
               /\ Live(tasks') = {}
               /\ ~heartbeatTimer'
               /\ reconnectTimer' # 0
               /\ ~AnyError(step')
          ELSE /\ UNCHANGED <<abortController, intentionallyStopped, isConnected,
                              reconnectAttempts, reconnectTimer, heartbeatTimer,
                              lastDataReceived, authenticatedFetch,
                              authSchemeDetected, host, port, https, username,
                              password, tasks>>
               /\ step'.calls = <<>>]_vars

\* C9 witness: a poll found the connection silent for too long
C9_Witness ==
    /\ step.op = "heartbeatPoll"
    /\ step.calls = <<"onDisconnect">>
    /\ reconnectTimer # 0
    /\ ~isConnected

\* C10: the heartbeat timer is armed only while the Manager is connected.
C10_HeartbeatOnlyConnected == heartbeatTimer => isConnected

\* the five fields updateSettings() compares
ConfigFields == {"host", "port", "https", "username", "password"}

\* argument o gives no compared field a value other than the one m holds
ChangesNoConfigField(m, o) == \A f \in ConfigFields : Has(o, f) => o[f] = m[f]

\* the connection, the credentials and the cached auth resolution are untouched
ConnectionUntouched ==
    UNCHANGED <<abortController, intentionallyStopped, isConnected,
                reconnectAttempts, reconnectTimer, heartbeatTimer,
                lastDataReceived, authenticatedFetch, authSchemeDetected,
                host, port, https, username, password, tasks>>

\* C11: an updateSettings() call whose argument changes none of host, port,
\* https, username and password (it carries only other fields, such as a
\* logger, or the current values) calls neither stop() nor start(), leaves the
\* connection up and leaves the credentials and the cached auth unchanged.
C11_UnrelatedFieldIsNoOp ==
    [][(step'.op = "updateSettings" /\ ChangesNoConfigField(Self, step'.arg)) =>
          /\ step'.calls = <<>>
          /\ ConnectionUntouched]_vars

\* the start() invocations a handler left suspended: what tasks' holds beyond
\* the tasks that were pending (aborted, if stop() found a controller)
NewAttempts ==
    tasks' (-) (IF abortController # 0 THEN abort(tasks, abortController) ELSE tasks)

\* the handler was updateSettings(o) with a full configuration o that differs
\* from the stored one
ChangedBy(o) ==
    /\ step'.op = "updateSettings"
    /\ step'.arg = o
    /\ needsRestart(Self, o)

\* C12: updateSettings(o) with o different from the current configuration in
\* host, port, https, username or password drops the cached auth resolution,
\* resets the reconnect counter to 0, stops the connection and starts one new
\* attempt, and that attempt targets o's host, port and transport with o's
\* credentials.
C12_ChangeRestartsOnNewConfig ==
    [][\A o \in FullConfigs : ChangedBy(o) =>
          /\ authenticatedFetch' = NULL
          /\ authSchemeDetected' = NULL
          /\ reconnectAttempts' = 0
          /\ step'.calls = <<"onDisconnect">>
          /\ BagCardinality(NewAttempts) = 1
          /\ \A t \in DOMAIN NewAttempts : t.url = Url(o.https, o.host, o.port)
          /\ username' = o.username
          /\ password' = o.password]_vars

\* the handler that ran last was updateSettings(c) with a full configuration c
UpdatedTo(st, c) == st.op = "updateSettings" /\ st.arg = c

\* C13: updateSettings is idempotent on full configurations: after
\* updateSettings(c) the stored configuration equals c, and updateSettings(c)
\* called again right away neither stops nor restarts the connection.
C13_UpdateSettingsIdempotent ==
    /\ [](\A c \in FullConfigs : UpdatedTo(step, c) => ~needsRestart(Self, c))
    /\ [][\A c \in FullConfigs : (UpdatedTo(step, c) /\ UpdatedTo(step', c)) =>
              /\ step'.calls = <<>>
              /\ ConnectionUntouched]_vars

C15_PendingTimerBlocksSchedule ==
    [][/\ (IsFailure(step') /\ reconnectTimer # 0) =>
              /\ reconnectTimer' = reconnectTimer
              /\ reconnectAttempts' = reconnectAttempts
       /\ (reconnectAttempts' = reconnectAttempts + 1 /\ step'.op # "heartbeatPoll") =>
              /\ reconnectTimer = 0
              /\ reconnectTimer' # 0]_vars

\* C15 witness: a failure asked for a reconnect (not stopped, counter below the
\* maximum) and armed nothing: the counter still stands at 0 while a timer
\* from before the last counter reset is pending
C15_Witness ==
    /\ IsFailure(step)
    /\ ~intentionallyStopped
    /\ reconnectAttempts = 0
    /\ reconnectTimer # 0

\* the handler st records was a call by the owner that (re)started the stream,
\* and the attempt it started is the only task pending
OwnerStarted(st, ts) ==
    /\ \/ st.op = "start"
       \/ st.op = "updateSettings" /\ st.calls # <<>>
    /\ BagCardinality(ts) = 1

\* C16: while the counter stands at the maximum no handler arms a reconnect
\* timer; after the owner calls start(), or updateSettings() with changed
\* settings, the failure of the attempt that call started arms a reconnect
\* timer again.
C16_InterventionReenables ==
    [][/\ (reconnectAttempts = maxReconnectAttempts
           /\ reconnectAttempts' = maxReconnectAttempts) =>
              reconnectTimer' \in {0, reconnectTimer}
       /\ (OwnerStarted(step, tasks) /\ IsFailure(step')) =>
              reconnectTimer' # 0]_vars

\* number of invocations of callback cb in the handler st records
Invocations(st, cb) == Cardinality({i \in 1..Len(st.calls) : st.calls[i] = cb})

\* C17: a 2xx answer to the stream request makes the Manager connected, resets
\* the attempt counter to 0, arms the heartbeat interval with the last-data
\* timestamp set to now and invokes onConnect once, before the first chunk is
\* pulled (the read loop is left suspended on its first pull, or, when the
\* response has no readable body, fails after onConnect).
C17_HandshakeSuccess ==
    [][/\ Settled(step', "fetchDone", "ok") =>
              /\ isConnected'
              /\ reconnectAttempts' = 0
              /\ heartbeatTimer'
              /\ lastDataReceived' = 0
              /\ step'.calls = <<"onConnect">>
              /\ \E t \in DOMAIN tasks :
                    /\ t.pc = "fetch"
                    /\ tasks' = (tasks (-) SetToBag({t}))
                                    (+) SetToBag({[t EXCEPT !.pc = "read"]})
       /\ Settled(step', "fetchDone", "okBadBody") =>
              /\ step'.calls[1] = "onConnect"
              /\ Invocations(step', "onConnect") = 1
              /\ reconnectAttempts' <= 1
              /\ heartbeatTimer'
              /\ lastDataReceived' = 0]_vars

\* C17 witness: the handshake has succeeded and the read loop waits for its
\* first chunk
C17_Witness ==
    /\ Settled(step, "fetchDone", "ok")
    /\ step.calls = <<"onConnect">>
    /\ isConnected
    /\ heartbeatTimer
    /\ lastDataReceived = 0
    /\ reconnectAttempts = 0
    /\ Reading(tasks) # {}

\* the handler st records is a connect attempt that failed before the
\* handshake for a reason other than HTTP 401 and other than an abort
ConnectFailed(st) ==
    \/ Settled(st, "probeDone", "fail")
    \/ Settled(st, "fetchDone", "httpError")
    \/ Settled(st, "fetchDone", "netError")

\* C18: a connect attempt that fails for a reason other than HTTP 401 (failed
\* auth probe, refused connection or DNS failure, non-2xx status) while the
\* Manager is not stopped invokes onError once and no other callback, and
\* asks for a reconnect: with the counter below the maximum a timer is pending
\* afterwards, a new one for the next attempt unless one was pending already.
C18_ConnectFailureReconnects ==
    [][(ConnectFailed(step') /\ ~intentionallyStopped) =>
          /\ step'.calls = <<"onError">>
          /\ reconnectAttempts < maxReconnectAttempts =>
                /\ reconnectTimer' # 0
                /\ reconnectTimer = 0 =>
                      /\ reconnectAttempts' = reconnectAttempts + 1
                      /\ reconnectTimer' =
                            Min(reconnectAttempts', MaxMultiplier) * reconnectDelay
          /\ reconnectAttempts >= maxReconnectAttempts =>
                UNCHANGED <<reconnectTimer, reconnectAttempts>>]_vars

\* C18 witness: the stream request was answered with a non-2xx status other
\* than 401, onError was invoked and a reconnect timer is armed
C18_Witness ==
    /\ Settled(step, "fetchDone", "httpError")
    /\ step.calls = <<"onError">>
    /\ ~intentionallyStopped
    /\ reconnectTimer # 0
    /\ reconnectAttempts > 0

\* C19: right after a stop() call by the owner, whatever the state it was
\* called in, no reconnect timer is pending, the heartbeat interval is not
\* armed, every stream request or read loop in flight has its abort signal
\* raised, the controller is dropped and the Manager is not connected.
C19_StopPostcondition ==
    step.op = "stop" =>
        /\ reconnectTimer = 0
        /\ ~heartbeatTimer
        /\ Live(tasks) = {}
        /\ abortController = 0
        /\ ~isConnected
        /\ intentionallyStopped

\* C19 witness: stop() was called with a read loop in flight, which now holds
\* an aborted signal
C19_Witness ==
    /\ step.op = "stop"
    /\ \E t \in DOMAIN tasks : t.pc = "read" /\ t.sig = Aborted
    /\ reconnectTimer = 0
    /\ ~heartbeatTimer
    /\ abortController = 0
    /\ ~isConnected

\* connect attempts in flight: auth probes and un-aborted stream requests
Connecting(ts) ==
    {t \in DOMAIN ts : t.pc = "probe" \/ (t.pc = "fetch" /\ t.sig # Aborted)}

\* C20: a connect attempt does not stay pending forever: whether or not the
\* device answers, the auth probe and the stream request settle (by an answer
\* or by a timeout that is handled as a connection error).
C20_ConnectAttemptSettles == (Connecting(tasks) # {}) ~> (Connecting(tasks) = {})

\* the frames parseSSE emitted in the read-loop iteration st records, fs being
\* all frames emitted so far
NewFrames(st, fs) == SubSeq(fs, Len(fs) - st.arg.emitted + 1, Len(fs))

\* a frame the read loop hands to onData / a live frame it cannot decode
Decodable(f) == f.event = LIVE /\ f.data # <<>> /\ JsonParses(f.data)
Undecodable(f) == f.event = LIVE /\ f.data # <<>> /\ ~JsonParses(f.data)

CountOf(fs, P(_)) == Cardinality({i \in 1..Len(fs) : P(fs[i])})

\* the handler st records is a read-loop iteration that parsed a chunk of text
ParsedChunk(st) == Settled(st, "chunkPull", "text") /\ st.arg # NoArg

\* C21: a chunk that carries a live frame whose payload does not decode leaves
\* the Manager connected and reading, invokes neither onError nor
\* onDisconnect, schedules no reconnect, and still hands every decodable live
\* frame of the same chunk, before or after the bad one, to onData; the
\* chunks that follow are processed the same way.
C21_BadFrameSkipped ==
    [][(ParsedChunk(step') /\ isConnected
          /\ CountOf(NewFrames(step', frames'), Undecodable) > 0) =>
          /\ isConnected'
          /\ ~AnyError(step')
          /\ ~Invoked(step', "onDisconnect")
          /\ UNCHANGED <<reconnectTimer, reconnectAttempts, tasks, abortController,
                         heartbeatTimer>>
          /\ Invocations(step', "onData") =
                CountOf(NewFrames(step', frames'), Decodable)]_vars

\* C21 witness: one chunk carried an undecodable live frame and then a
\* decodable one, which reached onData
C21_Witness ==
    /\ ParsedChunk(step)
    /\ step.arg.emitted = 2
    /\ Undecodable(NewFrames(step, frames)[1])
    /\ Decodable(NewFrames(step, frames)[2])
    /\ step.calls = <<"onData">>
    /\ isConnected

\* C22: a read-loop iteration invokes onData once for each parsed frame that is
\* named live, has a non-empty payload and decodes, and for no other frame;
\* the heartbeat clock is reset when the chunk holds such a frame and keeps
\* running when it holds none.
C22_OnDataIffLiveDecodable ==
    [][(ParsedChunk(step') /\ ~intentionallyStopped) =>
          LET new == NewFrames(step', frames')
          IN  /\ step'.calls = [i \in 1..CountOf(new, Decodable) |-> "onData"]
              /\ lastDataReceived' =
                    IF CountOf(new, Decodable) > 0 THEN 0 ELSE lastDataReceived]_vars

\* C22 witness: a chunk whose frames were all of another name, empty or
\* undecodable went by without onData while the heartbeat clock kept running
C22_Witness ==
    /\ ParsedChunk(step)
    /\ step.arg.emitted > 0
    /\ CountOf(NewFrames(step, frames), Decodable) = 0
    /\ step.calls = <<>>
    /\ lastDataReceived >= ClockStep
    /\ isConnected

\* number of auth probes in flight
Probes(ts) == BagCardinality([t \in {r \in DOMAIN ts : r.pc = "probe"} |-> ts[t]])

\* the handler issued an auth probe (no handler both settles and issues one)
ProbeIssued == Probes(tasks') > Probes(tasks)

\* C23: a probe is issued only with a password configured and no resolution
\* cached; once a resolution is cached no connect or reconnect attempt issues
\* a probe until the settings change; updateSettings() with changed settings
\* and a password drops the cache and its attempt probes again.
C23_ProbeOncePerCredentials ==
    [][/\ ProbeIssued => (~FalsyString(password') /\ authenticatedFetch' = NULL)
       /\ (authenticatedFetch # NULL /\ step'.op # "updateSettings") => ~ProbeIssued
       /\ \A o \in AuthOptions : (ChangedBy(o) /\ ~FalsyString(o.password)) =>
              /\ ProbeIssued
              /\ authenticatedFetch' = NULL
              /\ authSchemeDetected' = NULL]_vars

\* C23 witness: a reconnect attempt that found the resolution cached went
\* straight to the stream request
C23_Witness ==
    /\ step.op = "reconnectTimer"
    /\ authenticatedFetch # NULL
    /\ ~FalsyString(password)
    /\ Probes(tasks) = 0
    /\ Live(tasks) # {}

\* the handler issued a stream request
FetchIssued ==
    \E t \in DOMAIN tasks' : t.pc = "fetch" /\ CopiesIn(t, tasks') > CopiesIn(t, tasks)

\* C24: with a password configured, when the probe resolves to `none` the
\* stream request goes out through the default unauthenticated request
\* function: no Basic or Digest request function is installed for it.
C24_NoneUsesDefaultFetch ==
    [][(Settled(step', "probeDone", "none") /\ FetchIssued) =>
           authenticatedFetch' = NULL]_vars

\* number of address look-ups in flight
Resolves(ts) == BagCardinality([t \in {r \in DOMAIN ts : r.pc = "resolve"} |-> ts[t]])

\* C25: the address-resolution collaborator is consulted only by a fired
\* reconnect timer, and for a Manager that was given the device and driver
\* references: start() called by the owner and updateSettings() consult
\* nothing. A fired timer consults it once: the look-up is in flight before
\* any probe or stream request of that attempt is issued, and when it settles
\* the attempt goes on to its request without a second look-up.
C25_ResolverOnlyOnReconnect ==
    [][/\ Resolves(tasks') > Resolves(tasks) =>
              /\ step'.op = "reconnectTimer"
              /\ resolver
              /\ Resolves(tasks') = Resolves(tasks) + 1
              /\ ~FetchIssued
              /\ ~ProbeIssued
       /\ step'.op \in {"start", "updateSettings"} => Resolves(tasks') = Resolves(tasks)
       /\ step'.op = "resolveDone" =>
              /\ Resolves(tasks') = Resolves(tasks) - 1
              /\ FetchIssued \/ ProbeIssued]_vars

\* C25 witness: a fired reconnect timer has its look-up in flight and no
\* request of the attempt is out yet
C25_Witness ==
    /\ step.op = "reconnectTimer"
    /\ Resolves(tasks) = 1
    /\ Connecting(tasks) = {}
    /\ reconnectTimer = 0

\* the attempt the handler started asks for the stream at host h, port p
AttemptTargets(h, p) ==
    \E t \in DOMAIN tasks' :
        /\ t.pc \in {"probe", "fetch"}
        /\ CopiesIn(t, tasks') > CopiesIn(t, tasks)
        /\ t.url = Url(https, h, p)

\* C26: when the look-up settles the reconnect attempt always proceeds; it
\* targets the address of the answer when the answer is a success with
\* ipUpdated, and the previous host and port when the answer reports no
\* change, a failure, or the look-up threw.
C26_AdoptsIffUpdated ==
    [][step'.op = "resolveDone" =>
          IF step'.out = "updated"
          THEN /\ host' = step'.arg.host
               /\ port' = step'.arg.port
               /\ AttemptTargets(step'.arg.host, step'.arg.port)
          ELSE /\ host' = host
               /\ port' = port
               /\ AttemptTargets(host, port)]_vars

\* C26 witness: an answer with a changed address moved the Manager to it
C26_Witness ==
    /\ step.op = "resolveDone"
    /\ step.out = "updated"
    /\ host = "h2"
    /\ port = 8080
    /\ \E t \in DOMAIN tasks : t.pc = "fetch" /\ t.url = Url(https, "h2", 8080)

\* C27: however the text of a frame sequence is cut into chunks, the frames
\* the read loop has emitted after any number of chunks, and the remainder it
\* carries, are those of one parse of all the text pulled so far.
C27_ChunkInvariance ==
    Reading(tasks) # {} =>
        /\ frames = parseSSE(pulled).events
        /\ buffer = parseSSE(pulled).remainder

\* the text parseSSE is called with in the read-loop iteration of this step:
\* the remainder kept so far and the chunk just decoded
CallBuffer == buffer \o SubSeq(pulled', Len(pulled) + 1, Len(pulled'))

\* where the last blank-line boundary of text b ends: the index of the last
\* line feed that directly follows a line feed, 0 when b holds no boundary
LastBoundaryEnd(b) ==
    LET ends == {i \in 2..Len(b) : b[i] = LF /\ b[i - 1] = LF}
    IN  IF ends = {} THEN 0 ELSE CHOOSE i \in ends : \A j \in ends : j <= i

\* C28: for every buffer the parser is called with, the remainder is exactly
\* the text after the last blank-line boundary and the frames are those of the
\* text up to that boundary alone, so that nothing after it is emitted and
\* nothing is lost; a buffer without a boundary gives no frame and comes back
\* whole as the remainder.
C28_RemainderIsUnterminatedTail ==
    [][ParsedChunk(step') =>
          LET b == CallBuffer
              e == LastBoundaryEnd(b)
          IN  /\ buffer' = SubSeq(b, e + 1, Len(b))
              /\ NewFrames(step', frames') = parseSSE(SubSeq(b, 1, e)).events
              /\ e = 0 => (step'.arg.emitted = 0 /\ buffer' = b)]_vars

\* C28 witness: a buffer with frames up to a boundary and unterminated text
\* after it: frames were emitted and the tail was kept
C28_Witness ==
    /\ ParsedChunk(step)
    /\ step.arg.emitted > 0
    /\ buffer # <<>>
    /\ LastBoundaryEnd(pulled) > 0
    /\ buffer = SubSeq(pulled, LastBoundaryEnd(pulled) + 1, Len(pulled))

\* the blocks of text b that a blank-line boundary terminates
TerminatedBlocks(b) ==
    LET blocks == splitBlocks(b, 1, 1)
    IN  SubSeq(blocks, 1, Len(blocks) - 1)

\* the block has an `event:` line or a `data:` line
HasField(block) ==
    LET lines == splitLines(block, 1, 1)
    IN  \E i \in 1..Len(lines) : startsWith(lines[i], EVENT) \/ startsWith(lines[i], DATA)

\* C29: the parser emits a frame for a terminated block only when the block
\* has an `event:` or a `data:` line; a block of comment lines or unknown
\* fields gives no frame.
C29_FieldlessBlockDiscarded ==
    [][ParsedChunk(step') =>
          step'.arg.emitted = CountOf(TerminatedBlocks(CallBuffer), HasField)]_vars

\* a live frame with a JSON payload, its lines and its blank line ended by nl
LiveFrame(nl) == EventLive \o nl \o DataGood \o nl \o nl

\* C30: the frame written with CRLF line endings is emitted as the frame its
\* LF form gives, {event: live, data: {}}, and leaves an empty remainder.
C30_CRLFTolerated ==
    [][(ParsedChunk(step') /\ CallBuffer = LiveFrame(<<CR, LF>>)) =>
          /\ NewFrames(step', frames') = parseSSE(LiveFrame(<<LF>>)).events
          /\ NewFrames(step', frames') = <<[event |-> LIVE, data |-> <<"{", "}">>]>>
          /\ buffer' = <<>>]_vars

\* the first word of header text h is word, in any mix of upper and lower case
TokenIs(h, word) ==
    LET tok == firstToken(trim(h))
    IN  /\ Len(tok) = Len(word)
        /\ \A i \in 1..Len(word) :
               \/ tok[i] = word[i]
               \/ \E k \in 1..Len(LowerCase) : LowerCase[k] = word[i] /\ UpperCase[k] = tok[i]

\* the probe of this step was answered with a response of status st
ProbeAnswered(st) ==
    /\ step'.op = "probeDone"
    /\ "status" \in DOMAIN step'.arg
    /\ step'.arg.status = st

\* C31: the probe maps its one answer to a scheme: status 200 gives `none`;
\* 401 with a challenge whose first word is `basic` in any case gives `basic`;
\* 401 with `digest`, any other word or no challenge header gives `digest`; a
\* rejected request is reported as an error and the detector sends no second
\* probe.
C31_ProbeMapping ==
    [][/\ ProbeAnswered(200) => authSchemeDetected' = NULL
       /\ ProbeAnswered(401) =>
              authSchemeDetected' =
                  IF "wwwAuth" \in DOMAIN step'.arg /\ TokenIs(step'.arg.wwwAuth, BASIC)
                  THEN "basic" ELSE "digest"
       /\ (step'.op = "probeDone" /\ "error" \in DOMAIN step'.arg) =>
              /\ Settled(step', "probeDone", "fail")
              /\ Invoked(step', "onError")
              /\ Probes(tasks') = Probes(tasks) - 1
              /\ UNCHANGED <<authSchemeDetected, authenticatedFetch>>]_vars

\* C31 witness: a 401 whose challenge is written BASIC resolved to basic
C31_Witness ==
    /\ step.op = "probeDone"
    /\ "wwwAuth" \in DOMAIN step.arg
    /\ step.arg.status = 401
    /\ step.arg.wwwAuth = <<"B", "A", "S", "I", "C">>
    /\ authSchemeDetected = "basic"

\* C32: the probe resolves to `none` for every status from 200 through 299.
C32_Any2xxIsNone ==
    [][(step'.op = "probeDone" /\ "status" \in DOMAIN step'.arg
            /\ step'.arg.status \in 200..299) =>
           authSchemeDetected' = NULL]_vars

\* the stream request of this step was answered 2xx with a body that is
\* missing or of no known shape
BadBodyAnswered(st) ==
    /\ st.op = "fetchDone"
    /\ "body" \in DOMAIN st.arg
    /\ st.arg.body \in {"none", "other"}

\* C33: a 2xx answer whose body is missing or of an unrecognized shape makes
\* the stream adapter fail right after the handshake, and the Manager handles
\* it as a read error: it ends not connected, with no read loop left, onError
\* and onDisconnect invoked once each after onConnect, and a reconnect timer
\* armed.
C33_BadBodyIsReadError ==
    [][BadBodyAnswered(step') =>
          /\ ~isConnected'
          /\ step'.calls = <<"onConnect", "onError", "onDisconnect">>
          /\ reconnectTimer' # 0
          /\ Reading(tasks') = Reading(tasks)]_vars

\* C33 witness: a response without a body was handled as a read error
C33_Witness ==
    /\ BadBodyAnswered(step)
    /\ step.arg.body = "none"
    /\ step.out = "okBadBody"
    /\ ~isConnected
    /\ reconnectTimer = reconnectDelay

\* the values of the decodable live frames among fs, in the order of fs
RECURSIVE Payloads(_)
Payloads(fs) ==
    IF fs = <<>> THEN <<>>
    ELSE (IF Decodable(Head(fs)) THEN <<JSONparse(Head(fs).data)>> ELSE <<>>)
             \o Payloads(Tail(fs))

\* C34: within a connection the chunks are handled one after the other: the
\* iteration that takes a chunk hands to onData, before the next chunk is
\* pulled, exactly the values of the decodable live frames that the chunk
\* completes, in stream order, so that over the connection every such frame
\* of the stream is delivered once, none twice and none out of order; one
\* pull is outstanding at a time.
C34_InOrderExactlyOnce ==
    [][ParsedChunk(step') =>
          /\ Payloads(parseSSE(pulled').events)
                 = Payloads(parseSSE(pulled).events) \o step'.arg.delivered
          /\ Invocations(step', "onData") = Len(step'.arg.delivered)
          /\ LiveCount(tasks') = 1
          /\ Reading(tasks') = Reading(tasks)]_vars

\* C34 witness: the whole stream was taken in more than one chunk and its two
\* frames, with different values, were delivered by different iterations
C34_Witness ==
    /\ ParsedChunk(step)
    /\ input = <<>>
    /\ pulled = Frame(EventLive, DataOne) \o Frame(EventLive, DataGood)
    /\ step.arg.delivered = <<[object |-> <<>>]>>
    /\ Len(frames) = 2

\* the handler st records is the unwinding of an attempt that stop() aborted
AbortedUnwinds(st) == st.op \in {"fetchDone", "chunkPull"} /\ st.out = "abort"

\* C35: when updateSettings() has stopped and at once restarted the stream,
\* the attempt it aborted unwinds without an observable effect: no callback
\* is invoked, the reconnect timer and the attempt counter stay as they are,
\* and the connected flag of the new connection is not cleared.
C35_AbortedAttemptSilent ==
    [][(AbortedUnwinds(step') /\ ~intentionallyStopped) =>
          /\ step'.calls = <<>>
          /\ UNCHANGED <<reconnectTimer, reconnectAttempts, isConnected>>]_vars

\* C36: every established connection gets exactly one onDisconnect when it
\* ends: a read error or the end of the stream invokes it once; stop(), a
\* restart through start() or updateSettings(), or a heartbeat timeout that
\* ends a connection invokes it once and the read loop that then unwinds
\* invokes none; and onConnect is not invoked while an earlier connection is
\* still open.
C36_OneDisconnectPerConnection ==
    [][/\ (step'.op = "chunkPull" /\ step'.out \in {"end", "error"}) =>
              Invocations(step', "onDisconnect") = 1
       /\ (step'.op \in {"stop", "start", "updateSettings", "heartbeatPoll"}
              /\ isConnected /\ Invoked(step', "onDisconnect")) =>
              Invocations(step', "onDisconnect") = 1
       /\ (step'.op = "chunkPull" /\ step'.out = "abort") =>
              ~Invoked(step', "onDisconnect")
       /\ Invoked(step', "onConnect") => Reading(tasks) = {}]_vars

\* no connection is established: the Manager is not connected and no read
\* loop, running or unwinding, is left
NoConnection == ~isConnected /\ \A t \in DOMAIN tasks : t.pc # "read"

\* C37: onDisconnect is never invoked for a connection that was never
\* established: while no connection is established and the owner has not
\* stopped the Manager, a connect attempt that fails (at the probe or at the
\* stream request) and the reconnect attempt the timer then starts invoke
\* onError at most and never onDisconnect.
C37_NoDisconnectWithoutConnect ==
    [][(step'.op \in {"probeDone", "fetchDone", "reconnectTimer", "resolveDone"}
            /\ NoConnection /\ ~ownerStopped /\ ~Invoked(step', "onConnect")) =>
           ~Invoked(step', "onDisconnect")]_vars

\* C38: the flags never take an impossible combination: whenever the Manager
\* is connected it is not intentionally stopped, it holds an abort controller
\* and no reconnect timer is pending.
C38_ConnectedIsConsistent ==
    isConnected =>
        /\ ~intentionallyStopped
        /\ abortController # 0
        /\ reconnectTimer = 0

\* an established connection has just been lost: the read failed, the stream
\* ended, or the heartbeat timed out
ConnectionLost ==
    /\ ~isConnected
    /\ Invoked(step, "onDisconnect")
    /\ \/ step.op = "chunkPull" /\ step.out \in {"end", "error"}
       \/ step.op = "heartbeatPoll"

\* C39: when the owner never stops the Manager, timers and callbacks run,
\* every connect attempt settles and the device accepts connections, the
\* Manager becomes connected again after every loss of an established
\* connection.
C39_RecoversAfterLoss == ConnectionLost ~> isConnected

\* C40: the authScheme preference is honoured: a probe is issued only when the
\* preference is `auto`, and with a password and a preference of `basic` or
\* `digest` a connect attempt goes to its request with the request function
\* of exactly that scheme.
C40_PreferenceHonoured ==
    [][/\ ProbeIssued => authScheme = "auto"
       /\ ((FetchIssued \/ ProbeIssued) /\ ~FalsyString(password')
              /\ authScheme # "auto") =>
              authenticatedFetch' = authScheme]_vars

====
